---- MODULE Spec2Model ----
(***************************************************************************)
(* Model of src/frontMatter.ts: the compact `number headings` decoder, the *)
(* legacy per-key decoder, the encoder, and the splice of the encoded      *)
(* value into an editor document.                                          *)
(*                                                                         *)
(* A JavaScript string is a sequence of one-character strings, so that     *)
(* split, trim, startsWith, substring and parseInt are computed and not    *)
(* assumed.  A JavaScript value of unknown type (a front matter entry) is  *)
(* a tagged record [t |-> "str" | "num" | "bool" | "null" | "undef" |      *)
(* "nan", v |-> ...].                                                      *)
(***************************************************************************)
EXTENDS Integers, Sequences, FiniteSets, TLC

VARIABLES
    mode,        \* "decode": a call of getFrontMatterSettingsOrAlternative; "save": calls of saveSettingsToFrontMatter
    pc,          \* "ready" before the first call, "done" after a call
    fm,          \* decode: the CachedMetadata.frontmatter argument
    alt,         \* decode: the alternativeSettings argument
    res,         \* decode: the record returned
    path,        \* decode: the branch that produced res
    doc,         \* save: the editor's lines
    docBefore,   \* save: the editor's lines before the last call
    sLast,       \* save: the settings argument of the last call
    sPrev,       \* save: the settings argument of the call before the last
    cacheLast,   \* save: the CachedMetadata.frontmatter argument of the last call
    cachePrev,   \* save: the CachedMetadata.frontmatter argument of the call before
    errLast,     \* save: TRUE iff the last call threw
    saves        \* save: number of calls made, counted up to two

vars == <<mode, pc, fm, alt, res, path, doc, docBefore, sLast, sPrev,
          cacheLast, cachePrev, errLast, saves>>

-----------------------------------------------------------------------------
(* Bounds *)

\* Largest number of comma-separated parts in a `number headings` value.
MaxParts == 2
\* Largest number of legacy keys present in a metadata block.
MaxLegacyKeys == 2
\* Largest number of lines of an editor document before the first save.
MaxDocLines == 4

-----------------------------------------------------------------------------
(* JavaScript strings *)

WhiteSpace == {" ", "\t"}

startsWith(s, search) ==
    /\ Len(s) >= Len(search)
    /\ SubSeq(s, 1, Len(search)) = search

\* s.substring(start): the characters from 0-based index start to the end.
substring1(s, start) ==
    IF start >= Len(s) THEN <<>> ELSE SubSeq(s, start + 1, Len(s))

\* s.substring(start, end): 0-based, end exclusive.
substring2(s, start, end) ==
    IF start >= end THEN <<>> ELSE SubSeq(s, start + 1, end)

RECURSIVE trimStart(_)
trimStart(s) ==
    IF s # <<>> /\ Head(s) \in WhiteSpace THEN trimStart(Tail(s)) ELSE s

RECURSIVE trimEnd(_)
trimEnd(s) ==
    IF s # <<>> /\ s[Len(s)] \in WhiteSpace
    THEN trimEnd(SubSeq(s, 1, Len(s) - 1))
    ELSE s

trim(s) == trimEnd(trimStart(s))

\* s.split(c) for a one-character separator: the segments between the
\* occurrences of c, always at least one segment.
split(s, c) ==
    LET at == {i \in 1..Len(s) : s[i] = c}
        nth(k) == CHOOSE i \in at : Cardinality({j \in at : j < i}) = k - 1
        n == Cardinality(at)
    IN [k \in 1..(n + 1) |->
          SubSeq(s, IF k = 1 THEN 1 ELSE nth(k - 1) + 1,
                    IF k = n + 1 THEN Len(s) ELSE nth(k) - 1)]

\* parts.join(sep)
RECURSIVE join(_, _)
join(parts, sep) ==
    IF parts = <<>> THEN <<>>
    ELSE IF Len(parts) = 1 THEN parts[1]
    ELSE parts[1] \o sep \o join(Tail(parts), sep)

DecDigits == <<"0", "1", "2", "3", "4", "5", "6", "7", "8", "9">>
HexDigits == DecDigits \o <<"a", "b", "c", "d", "e", "f">>

digitValue(c, digits) == (CHOOSE i \in 1..Len(digits) : digits[i] = c) - 1

isDigit(c, digits) == \E i \in 1..Len(digits) : digits[i] = c

\* The value of the longest prefix of digits of s, and how many digits it has.
RECURSIVE digitsPrefix(_, _, _, _)
digitsPrefix(s, digits, acc, n) ==
    IF s # <<>> /\ isDigit(Head(s), digits)
    THEN digitsPrefix(Tail(s), digits, acc * Len(digits) + digitValue(Head(s), digits), n + 1)
    ELSE [value |-> acc, count |-> n]

JNum(n) == [t |-> "num", v |-> n]
JStr(s) == [t |-> "str", v |-> s]
JBool(b) == [t |-> "bool", v |-> b]
JNull == [t |-> "null"]
JUndefined == [t |-> "undef"]
NaN == [t |-> "nan"]

\* parseInt(s) with no radix: leading white space, a sign, 0x for hexadecimal,
\* then the longest run of digits; NaN when there is none.
parseInt(s) ==
    LET t == trimStart(s)
        neg == t # <<>> /\ Head(t) = "-"
        u == IF t # <<>> /\ Head(t) \in {"-", "+"} THEN Tail(t) ELSE t
        hex == Len(u) >= 2 /\ u[1] = "0" /\ u[2] \in {"x", "X"}
        d == IF hex THEN digitsPrefix(substring1(u, 2), HexDigits, 0, 0)
             ELSE digitsPrefix(u, DecDigits, 0, 0)
    IN IF d.count = 0 THEN NaN
       ELSE JNum(IF neg THEN 0 - d.value ELSE d.value)

\* The decimal digits of a natural number.
RECURSIVE natToString(_)
natToString(n) ==
    IF n < 10 THEN <<DecDigits[n + 1]>>
    ELSE Append(natToString(n \div 10), DecDigits[(n % 10) + 1])

\* `${n}` for an integer n.
numberToString(n) == IF n < 0 THEN <<"-">> \o natToString(0 - n) ELSE natToString(n)

\* String(x)
String(x) ==
    CASE x.t = "str" -> x.v
      [] x.t = "num" -> numberToString(x.v)
      [] x.t = "bool" -> IF x.v THEN <<"t", "r", "u", "e">> ELSE <<"f", "a", "l", "s", "e">>
      [] x.t = "null" -> <<"n", "u", "l", "l">>
      [] x.t = "undef" -> <<"u", "n", "d", "e", "f", "i", "n", "e", "d">>
      [] x.t = "nan" -> <<"N", "a", "N">>

\* if (x): the truthiness of a value.
truthy(x) ==
    CASE x.t = "str" -> x.v # <<>>
      [] x.t = "num" -> x.v # 0
      [] x.t = "bool" -> x.v
      [] OTHER -> FALSE

-----------------------------------------------------------------------------
(* settingsTypes: the settings record, its defaults and validity predicates *)

DEFAULT_SETTINGS ==
    [ skipTopLevel |-> FALSE,
      firstLevel |-> 1,
      maxLevel |-> 6,
      styleLevel1 |-> <<"1">>,
      styleLevelOther |-> <<"1">>,
      auto |-> FALSE,
      separator |-> <<>>,
      contents |-> <<>> ]

isValidFlag(f) == f.t = "bool"

isValidFirstOrMaxLevel(x) == x.t = "num" /\ x.v >= 1 /\ x.v <= 6

\* The level style tokens: numeric, lettered, roman.
LevelStyles == {<<"1">>, <<"A">>, <<"I">>}

\* The separators: none, or one character after the number.
Separators == {<<>>, <<":">>, <<".">>, <<"-">>, <<")">>}

isValidLevelStyle(s) == s \in LevelStyles

isValidSeparator(x) == x \in Separators

isValidContents(x) == x \in Seq(STRING)

-----------------------------------------------------------------------------
(* The compact decoder *)

AUTO_PART_KEY == <<"a", "u", "t", "o">>
FIRST_LEVEL_PART_KEY == <<"f", "i", "r", "s", "t", "-", "l", "e", "v", "e", "l">>
MAX_LEVEL_PART_KEY == <<"m", "a", "x">>
CONTENTS_PART_KEY == <<"c", "o", "n", "t", "e", "n", "t", "s">>

\* The key under which the compact value is stored.
NUMBER_HEADINGS == <<"n", "u", "m", "b", "e", "r", " ", "h", "e", "a", "d", "i", "n", "g", "s">>

\* parseFrontMatterEntry(frontmatter, key): the entry's value, null when absent.
parseFrontMatterEntry(frontmatter, key) ==
    IF frontmatter.e[key].t = "undef" THEN JNull ELSE frontmatter.e[key]

\* `a ?? b`
nullish(a, b) == IF a.t \in {"null", "undef"} THEN b ELSE a

\* Branch `cleanPart.startsWith(FIRST_LEVEL_PART_KEY)`.
parseFirstLevelPart(settings, cleanPart) ==
    LET nstring == substring1(cleanPart, Len(FIRST_LEVEL_PART_KEY) + 1)
        n == parseInt(nstring)
    IN IF isValidFirstOrMaxLevel(n) THEN [settings EXCEPT !.firstLevel = n.v] ELSE settings

\* Branch `cleanPart.startsWith(MAX_LEVEL_PART_KEY)`.
parseMaxLevelPart(settings, cleanPart) ==
    LET nstring == substring1(cleanPart, Len(MAX_LEVEL_PART_KEY) + 1)
        n == parseInt(nstring)
    IN IF isValidFirstOrMaxLevel(n) THEN [settings EXCEPT !.maxLevel = n.v] ELSE settings

\* Branch `cleanPart.startsWith(CONTENTS_PART_KEY)`.
parseContentsPart(settings, cleanPart) ==
    IF Len(cleanPart) <= Len(CONTENTS_PART_KEY) + 1 THEN settings
    ELSE LET tocHeading == substring1(cleanPart, Len(CONTENTS_PART_KEY) + 1)
         IN IF isValidContents(tocHeading)
            THEN [settings EXCEPT !.contents = tocHeading]
            ELSE settings

\* The final else branch: the formatting part.
parseFormattingPart(settings, cleanPart) ==
    LET lastChar == <<cleanPart[Len(cleanPart)]>>
        sepOk == isValidSeparator(lastChar)
        s1 == IF sepOk THEN [settings EXCEPT !.separator = lastChar] ELSE settings
        remainingPart == IF sepOk THEN substring2(cleanPart, 0, Len(cleanPart) - 1)
                         ELSE cleanPart
        descriptors == split(remainingPart, ".")
        skip == Len(descriptors) > 1 /\ descriptors[1] = <<"_">>
        firstNumberedDescriptor == IF skip THEN 1 ELSE 0
        s2 == [s1 EXCEPT !.skipTopLevel = skip]
    IN IF Len(descriptors) - firstNumberedDescriptor >= 2
       THEN LET styleLevel1 == descriptors[firstNumberedDescriptor + 1]
                styleLevelOther == descriptors[firstNumberedDescriptor + 2]
                s3 == IF isValidLevelStyle(styleLevel1)
                      THEN [s2 EXCEPT !.styleLevel1 = styleLevel1] ELSE s2
            IN IF isValidLevelStyle(styleLevelOther)
               THEN [s3 EXCEPT !.styleLevelOther = styleLevelOther] ELSE s3
       ELSE s2

\* The test that selects the first-level branch.
isFirstLevelPart(cleanPart) == startsWith(cleanPart, FIRST_LEVEL_PART_KEY)

\* The test that selects the max branch.
isMaxLevelPart(cleanPart) == startsWith(cleanPart, MAX_LEVEL_PART_KEY)

\* One iteration of `for (const part of parts)`.
parsePart(settings, part) ==
    LET cleanPart == trim(part)
    IN IF Len(cleanPart) = 0 THEN settings
       ELSE IF cleanPart = AUTO_PART_KEY THEN [settings EXCEPT !.auto = TRUE]
       ELSE IF isFirstLevelPart(cleanPart) THEN parseFirstLevelPart(settings, cleanPart)
       ELSE IF isMaxLevelPart(cleanPart) THEN parseMaxLevelPart(settings, cleanPart)
       ELSE IF startsWith(cleanPart, CONTENTS_PART_KEY) THEN parseContentsPart(settings, cleanPart)
       ELSE parseFormattingPart(settings, cleanPart)

RECURSIVE parseParts(_, _)
parseParts(settings, parts) ==
    IF parts = <<>> THEN settings
    ELSE parseParts(parsePart(settings, Head(parts)), Tail(parts))

\* The record decoded from the string form of a present entry.
parseEntryString(entryString) == parseParts(DEFAULT_SETTINGS, split(entryString, ","))

\* The test `if (entry)` that decides whether the compact value is decoded.
entryIsUsed(entry) == truthy(entry)

\* parseCompactFrontMatterSettings(fm): [found |-> FALSE] stands for undefined.
parseCompactFrontMatterSettings(frontmatter) ==
    LET entry == parseFrontMatterEntry(frontmatter, "number headings")
    IN IF entryIsUsed(entry)
       THEN [found |-> TRUE, settings |-> parseEntryString(String(entry))]
       ELSE [found |-> FALSE]

-----------------------------------------------------------------------------
(* The legacy decoder and the entry point *)

CompactKey == "number headings"

LegacyFields == {"skip-top-level", "max-level", "style-level-1", "style-level-other", "auto"}

\* The preferred and the deprecated spelling of a legacy key.
preferredKey(field) ==
    CASE field = "skip-top-level" -> "number-headings-skip-top-level"
      [] field = "max-level" -> "number-headings-max-level"
      [] field = "style-level-1" -> "number-headings-style-level-1"
      [] field = "style-level-other" -> "number-headings-style-level-other"
      [] field = "auto" -> "number-headings-auto"

deprecatedKey(field) ==
    CASE field = "skip-top-level" -> "header-numbering-skip-top-level"
      [] field = "max-level" -> "header-numbering-max-level"
      [] field = "style-level-1" -> "header-numbering-style-level-1"
      [] field = "style-level-other" -> "header-numbering-style-level-other"
      [] field = "auto" -> "header-numbering-auto"

LegacyKeys == {preferredKey(f) : f \in LegacyFields} \cup {deprecatedKey(f) : f \in LegacyFields}

FrontMatterKeys == {CompactKey} \cup LegacyKeys

\* Mutant of legacyEntry: the deprecated spelling is read first.
legacyEntryDeprecatedFirst(frontmatter, field) ==
    nullish(parseFrontMatterEntry(frontmatter, deprecatedKey(field)),
            parseFrontMatterEntry(frontmatter, preferredKey(field)))

\* `parseFrontMatterEntry(fm, preferred) ?? parseFrontMatterEntry(fm, deprecated)`
legacyEntry(frontmatter, field) ==
    nullish(parseFrontMatterEntry(frontmatter, preferredKey(field)),
            parseFrontMatterEntry(frontmatter, deprecatedKey(field)))

\* The backwards-compatibility branch of getFrontMatterSettingsOrAlternative.
legacySettings(frontmatter, alternativeSettings) ==
    LET skipTopLevelEntry == legacyEntry(frontmatter, "skip-top-level")
        maxLevelEntry == legacyEntry(frontmatter, "max-level")
        styleLevel1Entry == String(legacyEntry(frontmatter, "style-level-1"))
        styleLevelOtherEntry == String(legacyEntry(frontmatter, "style-level-other"))
        autoEntry == legacyEntry(frontmatter, "auto")
    IN [ DEFAULT_SETTINGS EXCEPT
           !.skipTopLevel = IF isValidFlag(skipTopLevelEntry) THEN skipTopLevelEntry.v
                            ELSE alternativeSettings.skipTopLevel,
           !.maxLevel = IF isValidFirstOrMaxLevel(maxLevelEntry) THEN maxLevelEntry.v
                        ELSE alternativeSettings.maxLevel,
           !.styleLevel1 = IF isValidLevelStyle(styleLevel1Entry) THEN styleLevel1Entry
                           ELSE alternativeSettings.styleLevel1,
           !.styleLevelOther = IF isValidLevelStyle(styleLevelOtherEntry) THEN styleLevelOtherEntry
                               ELSE alternativeSettings.styleLevelOther,
           !.auto = IF isValidFlag(autoEntry) THEN autoEntry.v
                    ELSE alternativeSettings.auto ]

\* Which branch of getFrontMatterSettingsOrAlternative returns.
settingsPath(frontmatter) ==
    IF frontmatter.present
    THEN IF parseCompactFrontMatterSettings(frontmatter).found THEN "compact" ELSE "legacy"
    ELSE "alternative"

getFrontMatterSettingsOrAlternative(frontmatter, alternativeSettings) ==
    IF frontmatter.present
    THEN LET decompactedSettings == parseCompactFrontMatterSettings(frontmatter)
         IN IF decompactedSettings.found THEN decompactedSettings.settings
            ELSE legacySettings(frontmatter, alternativeSettings)
    ELSE alternativeSettings

-----------------------------------------------------------------------------
(* The encoder *)

CommaSpace == <<",", " ">>

\* Mutant of skipTopLevelString: the `_.` prefix is never written.
skipTopLevelStringOmitted(settings) == <<>>

\* The `_.` prefix of the style part.
skipTopLevelString(settings) == IF settings.skipTopLevel THEN <<"_", ".">> ELSE <<>>

settingsToCompactFrontMatterValue(settings) ==
    LET autoPart == IF settings.auto THEN AUTO_PART_KEY \o CommaSpace ELSE <<>>
        firstLevelPart == FIRST_LEVEL_PART_KEY \o <<" ">> \o numberToString(settings.firstLevel) \o CommaSpace
        maxPart == MAX_LEVEL_PART_KEY \o <<" ">> \o numberToString(settings.maxLevel) \o CommaSpace
        contentsPart == IF Len(settings.contents) > 0
                        THEN CONTENTS_PART_KEY \o <<" ">> \o settings.contents \o CommaSpace
                        ELSE <<>>
        stylePart == skipTopLevelString(settings) \o settings.styleLevel1 \o <<".">>
                     \o settings.styleLevelOther \o settings.separator
    IN autoPart \o firstLevelPart \o maxPart \o contentsPart \o stylePart

-----------------------------------------------------------------------------
(* The editor: a document is its sequence of lines; line numbers are 0-based *)

NewLine == "\n"

lastLine(lines) == Len(lines) - 1

getLine(lines, i) == lines[i + 1]

\* The offset of position {line, ch: 0} in the text; a position past the last
\* line is clipped to the end of the text.
RECURSIVE lineOffset(_, _)
lineOffset(lines, line) ==
    IF line = 0 THEN 0
    ELSE IF line > lastLine(lines) THEN Len(join(lines, <<NewLine>>))
    ELSE lineOffset(lines, line - 1) + Len(getLine(lines, line - 1)) + 1

\* editor.replaceRange(text, {line: fromLine, ch: 0}, {line: toLine, ch: 0})
replaceRange(lines, text, fromLine, toLine) ==
    LET old == join(lines, <<NewLine>>)
        from == lineOffset(lines, fromLine)
        to == lineOffset(lines, toLine)
    IN split(substring2(old, 0, from) \o text \o substring1(old, to), NewLine)

-----------------------------------------------------------------------------
(* The metadata cache of a document: what CachedMetadata.frontmatter holds *)

Delimiter == <<"-", "-", "-">>

\* The index (1-based) of the closing delimiter of the block, 0 when none.
closingLine(lines) ==
    IF Len(lines) >= 2 /\ lines[1] = Delimiter /\ \E j \in 2..Len(lines) : lines[j] = Delimiter
    THEN CHOOSE j \in 2..Len(lines) :
            lines[j] = Delimiter /\ \A k \in 2..(j - 1) : lines[k] # Delimiter
    ELSE 0

\* A key with its surrounding quotes removed.
unquote(s) ==
    IF Len(s) >= 2 /\ s[1] = "'" /\ s[Len(s)] = "'" THEN SubSeq(s, 2, Len(s) - 1) ELSE s

\* The key a line of the block defines: the text before its first colon.
yamlKey(line) == unquote(trim(split(line, ":")[1]))

definesKey(line, key) == Len(split(line, ":")) >= 2 /\ yamlKey(line) = key

\* A block is a mapping when each of its lines is blank or `key: value`.
isMapping(lines) ==
    \A j \in 2..(closingLine(lines) - 1) :
        trim(lines[j]) = <<>> \/ Len(split(lines[j], ":")) >= 2

\* The lines (1-based) of the block that define `number headings`.
keyLines(lines) ==
    IF isMapping(lines)
    THEN {j \in 2..(closingLine(lines) - 1) : definesKey(lines[j], NUMBER_HEADINGS)}
    ELSE {}

\* frontmatter: present, frontmatter.position.start.line, and whether
\* frontmatter['number headings'] !== undefined.
frontMatterCache(lines) ==
    [ present |-> closingLine(lines) # 0 /\ isMapping(lines),
      startLine |-> 0,
      hasNumberHeadings |-> keyLines(lines) # {} ]

-----------------------------------------------------------------------------
(* The splice of the encoded settings into the document *)

\* for (let i = afterLine; i < editor.lastLine(); i++): the first line that
\* starts with search, -1 for undefined.
RECURSIVE findLineWhichStartsWith(_, _, _)
findLineWhichStartsWith(lines, search, afterLine) ==
    IF afterLine < lastLine(lines)
    THEN IF startsWith(getLine(lines, afterLine), search) THEN afterLine
         ELSE findLineWhichStartsWith(lines, search, afterLine + 1)
    ELSE -1

\* `number headings: ${v}\n`
frontMatterAdditions(settings) ==
    NUMBER_HEADINGS \o <<":", " ">> \o settingsToCompactFrontMatterValue(settings) \o <<NewLine>>

\* `---\nnumber headings: ${v}\n---\n\n`
newFrontMatter(settings) ==
    Delimiter \o <<NewLine>> \o frontMatterAdditions(settings) \o Delimiter \o <<NewLine, NewLine>>

\* Mutant of replaceToLine: the range ends where it starts.
replaceToLineSame(keyLine) == keyLine

\* The end of the replaced range: { line: keyLine + 1, ch: 0 }.
replaceToLine(keyLine) == keyLine + 1

\* Mutant of insertLine: the key goes before the block's first line.
insertLineAtStart(frontMatterLine) == frontMatterLine

\* The insertion point of a new key: { line: frontMatterLine + 1, ch: 0 }.
insertLine(frontMatterLine) == frontMatterLine + 1

\* Key not present, insert new key.
insertKey(lines, frontMatterLine, settings) ==
    [ lines |-> replaceRange(lines, frontMatterAdditions(settings),
                             insertLine(frontMatterLine), insertLine(frontMatterLine)),
      err |-> FALSE ]

\* Mutant of replaceKey: a key that is not found is inserted instead of reported.
replaceKeyOrInsert(lines, frontMatterLine, settings) ==
    LET keyLine == findLineWhichStartsWith(lines, NUMBER_HEADINGS, frontMatterLine)
    IN IF keyLine = -1 THEN insertKey(lines, frontMatterLine, settings)
       ELSE [ lines |-> replaceRange(lines, frontMatterAdditions(settings), keyLine, replaceToLine(keyLine)),
              err |-> FALSE ]

\* Key already present, replace it; err when the key's line is not found.
replaceKey(lines, frontMatterLine, settings) ==
    LET keyLine == findLineWhichStartsWith(lines, NUMBER_HEADINGS, frontMatterLine)
    IN IF keyLine = -1 THEN [lines |-> lines, err |-> TRUE]
       ELSE [ lines |-> replaceRange(lines, frontMatterAdditions(settings), keyLine, replaceToLine(keyLine)),
              err |-> FALSE ]

\* No frontmatter found, create frontmatter from scratch.
createFrontMatter(lines, settings) ==
    [ lines |-> replaceRange(lines, newFrontMatter(settings), 0, 0), err |-> FALSE ]

\* saveSettingsToFrontMatter: the lines afterwards, and whether it threw.
saveSettingsToFrontMatter(frontmatter, lines, settings) ==
    IF frontmatter.present
    THEN IF frontmatter.hasNumberHeadings
         THEN replaceKey(lines, frontmatter.startLine, settings)
         ELSE insertKey(lines, frontmatter.startLine, settings)
    ELSE createFrontMatter(lines, settings)

-----------------------------------------------------------------------------
(* Inputs *)

\* Parts a `number headings` value is made of: well-formed tokens, tokens
\* with a wrong delimiter after the keyword, out-of-range levels, junk.
PartVocabulary ==
    { <<"a", "u", "t", "o">>,
      <<"f", "i", "r", "s", "t", "-", "l", "e", "v", "e", "l", " ", "2">>,
      <<"f", "i", "r", "s", "t", "-", "l", "e", "v", "e", "l", " ", "9">>,
      <<"f", "i", "r", "s", "t", "-", "l", "e", "v", "e", "l", ":", "3">>,
      <<"m", "a", "x", " ", "4">>,
      <<"m", "a", "x", ":", "4">>,
      <<"m", "a", "x", "i", "m", "u", "m">>,
      <<"c", "o", "n", "t", "e", "n", "t", "s", " ", "T", "o", "c">>,
      <<"c", "o", "n", "t", "e", "n", "t", "s">>,
      <<"_", ".", "1", ".", "A", "-">>,
      <<"A", ".", "I">>,
      <<"1", ".", "A", ".">>,
      <<"_", ".", "I">>,
      <<"j", "u", "n", "k">>,
      <<"x", "-">>,
      <<>>,
      <<"1">> }

\* The values of at most n parts, joined as the encoder joins them.
RECURSIVE valuesOfParts(_)
valuesOfParts(n) ==
    IF n = 0 THEN {<<>>}
    ELSE LET shorter == valuesOfParts(n - 1)
         IN shorter \cup {p : p \in PartVocabulary}
                    \cup {v \o CommaSpace \o p : v \in shorter \ {<<>>}, p \in PartVocabulary}

\* What the `number headings` entry can hold when the key is present: a
\* string, or what YAML makes of an empty, numeric or boolean value.
CompactEntries ==
    {JStr(v) : v \in valuesOfParts(MaxParts)} \cup {JNull, JNum(0), JNum(5), JBool(TRUE)}

\* What a legacy entry can hold.
LegacyValues ==
    {JBool(TRUE), JBool(FALSE), JNum(1), JNum(9), JStr(<<"A">>)}

noEntries == [k \in FrontMatterKeys |-> JUndefined]

\* The metadata blocks that define exactly the legacy keys of `keys`.
legacyBlocks(keys) ==
    {[k \in FrontMatterKeys |-> IF k \in keys THEN f[k] ELSE JUndefined] :
        f \in [keys -> LegacyValues]}

\* Every legacy key present, none with the value the alternative would give.
allLegacy ==
    [k \in FrontMatterKeys |->
        CASE k \in {preferredKey("skip-top-level"), preferredKey("auto")} -> JBool(TRUE)
          [] k \in {deprecatedKey("skip-top-level"), deprecatedKey("auto")} -> JBool(FALSE)
          [] k \in {preferredKey("max-level"), deprecatedKey("max-level")} -> JNum(1)
          [] k \in {preferredKey("style-level-1"), preferredKey("style-level-other")} -> JStr(<<"A">>)
          [] k \in {deprecatedKey("style-level-1"), deprecatedKey("style-level-other")} -> JStr(<<"I">>)
          [] OTHER -> JUndefined]

FrontMatters ==
    {[present |-> FALSE]}
    \cup {[present |-> TRUE, e |-> [l EXCEPT ![CompactKey] = c]] :
            c \in CompactEntries, l \in {noEntries, allLegacy}}
    \cup {[present |-> TRUE, e |-> l] :
            l \in UNION {legacyBlocks(keys) :
                            keys \in {ks \in SUBSET LegacyKeys : Cardinality(ks) <= MaxLegacyKeys}}}

\* An alternative that differs from DEFAULT_SETTINGS in every field.
OtherSettings ==
    [ skipTopLevel |-> TRUE,
      firstLevel |-> 2,
      maxLevel |-> 4,
      styleLevel1 |-> <<"A">>,
      styleLevelOther |-> <<"I">>,
      auto |-> TRUE,
      separator |-> <<"-">>,
      contents |-> <<"T", "o", "c">> ]

SettingsInputs == {DEFAULT_SETTINGS, OtherSettings}

KeyLine == <<"n", "u", "m", "b", "e", "r", " ", "h", "e", "a", "d", "i", "n", "g", "s", ":", " ", "a", "u", "t", "o">>
PrefixedKeyLine == <<"n", "u", "m", "b", "e", "r", " ", "h", "e", "a", "d", "i", "n", "g", "s", " ", "o", "l", "d", ":", " ", "1">>
QuotedKeyLine == <<"'", "n", "u", "m", "b", "e", "r", " ", "h", "e", "a", "d", "i", "n", "g", "s", "'", ":", " ", "a", "u", "t", "o">>
BodyLine == <<"n", "u", "m", "b", "e", "r", " ", "h", "e", "a", "d", "i", "n", "g", "s", "!">>
EmptyLine == <<>>

LineVocabulary ==
    {Delimiter, KeyLine, PrefixedKeyLine, QuotedKeyLine, BodyLine, EmptyLine}

\* The documents of at most n lines; a document has at least one line.
RECURSIVE documents(_)
documents(n) ==
    IF n = 1 THEN {<<l>> : l \in LineVocabulary}
    ELSE LET shorter == documents(n - 1)
         IN shorter \cup {Append(d, l) : d \in shorter, l \in LineVocabulary}

-----------------------------------------------------------------------------
(* The state machine *)

NoCache == [present |-> FALSE]

InitDecode ==
    /\ mode = "decode"
    /\ pc = "ready"
    /\ fm \in FrontMatters
    /\ alt \in SettingsInputs
    /\ res = DEFAULT_SETTINGS
    /\ path = "none"
    /\ doc = <<EmptyLine>>
    /\ docBefore = <<EmptyLine>>
    /\ sLast = DEFAULT_SETTINGS
    /\ sPrev = DEFAULT_SETTINGS
    /\ cacheLast = NoCache
    /\ cachePrev = NoCache
    /\ errLast = FALSE
    /\ saves = 0

InitSave ==
    /\ mode = "save"
    /\ pc = "ready"
    /\ fm = [present |-> FALSE]
    /\ alt = DEFAULT_SETTINGS
    /\ res = DEFAULT_SETTINGS
    /\ path = "none"
    /\ doc \in documents(MaxDocLines)
    /\ docBefore = doc
    /\ sLast = DEFAULT_SETTINGS
    /\ sPrev = DEFAULT_SETTINGS
    /\ cacheLast = NoCache
    /\ cachePrev = NoCache
    /\ errLast = FALSE
    /\ saves = 0

Init == InitDecode \/ InitSave

\* A call of getFrontMatterSettingsOrAlternative(fm, alt).
GetSettings ==
    /\ mode = "decode"
    /\ pc = "ready"
    /\ pc' = "done"
    /\ res' = getFrontMatterSettingsOrAlternative(fm, alt)
    /\ path' = settingsPath(fm)
    /\ UNCHANGED <<mode, fm, alt, doc, docBefore, sLast, sPrev, cacheLast, cachePrev,
                   errLast, saves>>

\* A call of saveSettingsToFrontMatter(cache of the document, editor, settings).
Save(settings) ==
    /\ mode = "save"
    /\ LET cache == frontMatterCache(doc)
           out == saveSettingsToFrontMatter(cache, doc, settings)
       IN /\ doc' = out.lines
          /\ errLast' = out.err
          /\ cacheLast' = cache
    /\ docBefore' = doc
    /\ sLast' = settings
    /\ sPrev' = sLast
    /\ cachePrev' = cacheLast
    /\ saves' = IF saves < 2 THEN saves + 1 ELSE saves
    /\ pc' = "done"
    /\ UNCHANGED <<mode, fm, alt, res, path>>

Next ==
    \/ GetSettings
    \/ \E settings \in SettingsInputs : Save(settings)

Spec == Init /\ [][Next]_vars

-----------------------------------------------------------------------------
(* Vocabulary of the claims *)

Decoded == mode = "decode" /\ pc = "done"

Saved == mode = "save" /\ saves >= 1

\* The `number headings` key is in the metadata block.
KeyPresent == fm.present /\ fm.e[CompactKey].t # "undef"

\* The parts of the value of the `number headings` key, a string.
valueParts == split(fm.e[CompactKey].v, ",")

removeAt(seq, i) == SubSeq(seq, 1, i - 1) \o SubSeq(seq, i + 1, Len(seq))

\* The record under construction when part i is reached.
settingsBefore(parts, i) == parseParts(DEFAULT_SETTINGS, SubSeq(parts, 1, i - 1))

\* The frontmatter that holds only the key `number headings`, with this value.
compactOnly(value) == [present |-> TRUE, e |-> [noEntries EXCEPT ![CompactKey] = JStr(value)]]

\* The line a save writes for the settings.
keyLineOf(settings) == NUMBER_HEADINGS \o <<":", " ">> \o settingsToCompactFrontMatterValue(settings)

\* The tokens of the compact grammar, as the specification writes them.
isAutoToken(p) == p = AUTO_PART_KEY
isFirstLevelToken(p) == startsWith(p, FIRST_LEVEL_PART_KEY \o <<" ">>)
isMaxToken(p) == startsWith(p, MAX_LEVEL_PART_KEY \o <<" ">>)
isContentsToken(p) == startsWith(p, CONTENTS_PART_KEY \o <<" ">>) /\ Len(p) > Len(CONTENTS_PART_KEY) + 1
isFormattingToken(p) ==
    \E skip \in {<<>>, <<"_", ".">>}, s1 \in LevelStyles, s2 \in LevelStyles, sep \in Separators :
        p = skip \o s1 \o <<".">> \o s2 \o sep

isRecognizedToken(p) ==
    \/ isAutoToken(p) \/ isFirstLevelToken(p) \/ isMaxToken(p)
    \/ isContentsToken(p) \/ isFormattingToken(p)

\* The non-empty parts of a value, trimmed.
tokensOf(value) == {trim(q) : q \in {split(value, ",")[i] : i \in 1..Len(split(value, ","))}} \ {<<>>}

\* A part that has no recognized prefix and fewer than two style segments
\* after the optional `_` segment.
isJunkPart(part) ==
    LET c == trim(part)
        body == IF <<c[Len(c)]>> \in Separators THEN SubSeq(c, 1, Len(c) - 1) ELSE c
        segments == split(body, ".")
        skipped == IF Len(segments) > 1 /\ segments[1] = <<"_">> THEN 1 ELSE 0
    IN /\ c # <<>>
       /\ c # AUTO_PART_KEY
       /\ ~startsWith(c, FIRST_LEVEL_PART_KEY)
       /\ ~startsWith(c, MAX_LEVEL_PART_KEY)
       /\ ~startsWith(c, CONTENTS_PART_KEY)
       /\ Len(segments) - skipped < 2

\* A part that begins with the keyword followed by a character other than a space.
keywordThenOther(part, key) ==
    LET c == trim(part)
    IN startsWith(c, key) /\ Len(c) > Len(key) /\ c[Len(key) + 1] # " "

-----------------------------------------------------------------------------
(* Claims *)

\* C1: a record decoded from a `number headings` value, encoded and decoded
\* again through the compact decoder, comes back equal in all eight fields.
C1_RoundTrip ==
    (Decoded /\ path = "compact") =>
        LET again == parseCompactFrontMatterSettings(compactOnly(settingsToCompactFrontMatterValue(res)))
        IN again.found /\ again.settings = res

\* C1 witness: a decoded record with the top level skipped, a separator, a
\* style other than the default and a contents heading.
C1_Witness ==
    /\ Decoded /\ path = "compact"
    /\ res.skipTopLevel /\ res.separator = <<"-">> /\ res.styleLevelOther = <<"A">>
    /\ res.contents = <<"T", "o", "c">>

\* C2: when the metadata block has the `number headings` key, whatever its
\* value, the compact decoder's record is returned: the legacy path is not
\* taken, and neither the alternative settings nor a legacy key changes the result.
C2_LegacyOnlyOnAbsence ==
    (Decoded /\ KeyPresent) =>
        /\ path = "compact"
        /\ \A a \in SettingsInputs : getFrontMatterSettingsOrAlternative(fm, a) = res
        /\ getFrontMatterSettingsOrAlternative(
               [fm EXCEPT !.e = [noEntries EXCEPT ![CompactKey] = fm.e[CompactKey]]], alt) = res

\* C3: when the key is present and its value is made only of recognized
\* tokens, every field whose token is not in the value equals the field of
\* DEFAULT_SETTINGS, whatever the alternative settings are.
C3_DefaultPreservation ==
    (Decoded /\ KeyPresent /\ fm.e[CompactKey].t = "str"
        /\ \A p \in tokensOf(fm.e[CompactKey].v) : isRecognizedToken(p)) =>
        LET toks == tokensOf(fm.e[CompactKey].v)
        IN /\ (\A p \in toks : ~isAutoToken(p)) => res.auto = DEFAULT_SETTINGS.auto
           /\ (\A p \in toks : ~isFirstLevelToken(p)) => res.firstLevel = DEFAULT_SETTINGS.firstLevel
           /\ (\A p \in toks : ~isMaxToken(p)) => res.maxLevel = DEFAULT_SETTINGS.maxLevel
           /\ (\A p \in toks : ~isContentsToken(p)) => res.contents = DEFAULT_SETTINGS.contents
           /\ (\A p \in toks : ~isFormattingToken(p)) =>
                 /\ res.skipTopLevel = DEFAULT_SETTINGS.skipTopLevel
                 /\ res.styleLevel1 = DEFAULT_SETTINGS.styleLevel1
                 /\ res.styleLevelOther = DEFAULT_SETTINGS.styleLevelOther
                 /\ res.separator = DEFAULT_SETTINGS.separator

\* C4: when the block defines the key and the save does not throw, exactly
\* one line is replaced, it is a line of the block that defines the key, its
\* new text is `number headings: <encoded settings>`, and every other line
\* and the line count are unchanged.
C4_ReplaceInPlace ==
    (Saved /\ cacheLast.present /\ cacheLast.hasNumberHeadings /\ ~errLast) =>
        /\ Len(doc) = Len(docBefore)
        /\ \E j \in keyLines(docBefore) :
              /\ doc[j] = keyLineOf(sLast)
              /\ \A k \in 1..Len(docBefore) : k # j => doc[k] = docBefore[k]

\* C5: for a document whose block has the key, a save with settings s
\* followed by a save with the same s leaves the document after the second
\* save equal, line for line, to the document after the first.
C5_IdempotentResave ==
    (mode = "save" /\ saves >= 2 /\ sLast = sPrev
        /\ cachePrev.present /\ cachePrev.hasNumberHeadings) =>
        doc = docBefore

\* C5 witness: two saves of the same settings into a document that had the
\* key, both of which wrote the key's line.
C5_Witness ==
    /\ mode = "save" /\ saves >= 2 /\ sLast = sPrev /\ sLast = OtherSettings
    /\ cachePrev.present /\ cachePrev.hasNumberHeadings /\ ~errLast
    /\ \E j \in 1..Len(doc) : doc[j] = keyLineOf(OtherSettings)

\* C6: when the block exists without the key, the save inserts the line
\* `number headings: <encoded settings>` right after the block's first line;
\* the document grows by one line and every original line keeps its text and order.
C6_InsertionSafety ==
    (Saved /\ cacheLast.present /\ ~cacheLast.hasNumberHeadings) =>
        /\ ~errLast
        /\ Len(doc) = Len(docBefore) + 1
        /\ doc[cacheLast.startLine + 1] = docBefore[cacheLast.startLine + 1]
        /\ doc[cacheLast.startLine + 2] = keyLineOf(sLast)
        /\ \A k \in 1..Len(docBefore) :
              doc[IF k <= cacheLast.startLine + 1 THEN k ELSE k + 1] = docBefore[k]

\* C6 witness: a key inserted into a block that has another key.
C6_Witness ==
    /\ Saved /\ cacheLast.present /\ ~cacheLast.hasNumberHeadings
    /\ Len(docBefore) >= 3 /\ docBefore[2] = PrefixedKeyLine
    /\ doc[2] = keyLineOf(sLast)

\* C7: when the metadata says the key exists and the scan from the block's
\* start line meets no line that starts with `number headings`, the save
\* raises an error and the document is unchanged.
C7_FatalInconsistency ==
    (Saved /\ cacheLast.present /\ cacheLast.hasNumberHeadings
        /\ \A i \in cacheLast.startLine..(lastLine(docBefore) - 1) :
              ~startsWith(getLine(docBefore, i), NUMBER_HEADINGS)) =>
        errLast /\ doc = docBefore

\* C7 witness: a save into a block whose key is written with quotes.
C7_Witness ==
    /\ Saved /\ cacheLast.present /\ cacheLast.hasNumberHeadings /\ errLast
    /\ \E j \in 1..Len(docBefore) : docBefore[j] = QuotedKeyLine

\* C8: with a block and no `number headings` key, each of skipTopLevel,
\* maxLevel, styleLevel1, styleLevelOther and auto is its legacy key's value
\* (preferred spelling, else deprecated) when valid and else the field of the
\* alternative; firstLevel, contents and separator are those of
\* DEFAULT_SETTINGS; with no block the alternative is returned unchanged.
C8_LegacyMerge ==
    /\ (Decoded /\ ~fm.present) => res = alt
    /\ (Decoded /\ fm.present /\ ~KeyPresent) =>
          LET given(k) == fm.e[k].t \notin {"undef", "null"}
              value(f) == IF given(preferredKey(f)) THEN fm.e[preferredKey(f)]
                          ELSE fm.e[deprecatedKey(f)]
              flag(f, other) == IF value(f).t = "bool" THEN value(f).v ELSE other
              style(f, other) == IF String(value(f)) \in LevelStyles THEN String(value(f)) ELSE other
          IN /\ res.skipTopLevel = flag("skip-top-level", alt.skipTopLevel)
             /\ res.auto = flag("auto", alt.auto)
             /\ res.maxLevel = IF isValidFirstOrMaxLevel(value("max-level"))
                               THEN value("max-level").v ELSE alt.maxLevel
             /\ res.styleLevel1 = style("style-level-1", alt.styleLevel1)
             /\ res.styleLevelOther = style("style-level-other", alt.styleLevelOther)
             /\ res.firstLevel = DEFAULT_SETTINGS.firstLevel
             /\ res.contents = DEFAULT_SETTINGS.contents
             /\ res.separator = DEFAULT_SETTINGS.separator

\* C8 witness: both spellings of a legacy key present with different valid
\* values, and an alternative that is not the defaults.
C8_Witness ==
    /\ Decoded /\ path = "legacy" /\ alt = OtherSettings
    /\ fm.e[preferredKey("auto")] = JBool(FALSE)
    /\ fm.e[deprecatedKey("auto")] = JBool(TRUE)
    /\ res.auto = FALSE /\ res.skipTopLevel = TRUE /\ res.separator = <<>>

\* C9: a junk part changes no field of the record under construction, so the
\* decoded record equals the one decoded from the value without that part.
C9_JunkIgnored ==
    (Decoded /\ path = "compact" /\ fm.e[CompactKey].t = "str" /\ Len(valueParts) >= 2) =>
        \A i \in 1..Len(valueParts) :
            isJunkPart(valueParts[i]) =>
                /\ parsePart(settingsBefore(valueParts, i), valueParts[i]) = settingsBefore(valueParts, i)
                /\ parseEntryString(join(removeAt(valueParts, i), <<",">>)) = res

\* C10: a part changes firstLevel only if it begins with `first-level ` and
\* maxLevel only if it begins with `max `; a part with another character
\* after the keyword is handled as a formatting descriptor.
C10_PrefixClassification ==
    (Decoded /\ path = "compact" /\ fm.e[CompactKey].t = "str") =>
        \A i \in 1..Len(valueParts) :
            LET before == settingsBefore(valueParts, i)
                after == parsePart(before, valueParts[i])
                c == trim(valueParts[i])
            IN /\ after.firstLevel # before.firstLevel => isFirstLevelToken(c)
               /\ after.maxLevel # before.maxLevel => isMaxToken(c)
               /\ (keywordThenOther(c, FIRST_LEVEL_PART_KEY) \/ keywordThenOther(c, MAX_LEVEL_PART_KEY)) =>
                     after = parseFormattingPart(before, c)

====
